---- MODULE Spec2Model ----
(***************************************************************************)
(* Stock data fetcher Lambda: symbol-set resolution, cache-aside retrieval *)
(* against a DynamoDB table, Alpha Vantage fallback, response composition. *)
(* Two handler files exist in the repository:                              *)
(*   variant "A"  backend/lambdas/stock-data-fetcher/index.js              *)
(*   variant "B"  the second handler file (sort key `date`, success flag)  *)
(* A JavaScript string is modelled as a sequence of one-character strings. *)
(***************************************************************************)
EXTENDS Integers, Sequences, FiniteSets, TLC

(***************************************************************************)
(* Bounds of the model.                                                    *)
(***************************************************************************)
MaxTime == 2          \* the clock runs over 0..MaxTime (epoch seconds)
SecondsPerDay == 2    \* length of a UTC calendar day, scaled down

(***************************************************************************)
(* Configuration read at module load.                                      *)
(***************************************************************************)
\* parseInt(process.env.CACHE_TTL || '45'): the TTL in seconds, set through the
\* environment; one value for every symbol and every invocation.
CACHE_TTL == 2

Variants == {"A", "B"}

(***************************************************************************)
(* JavaScript strings.                                                     *)
(***************************************************************************)
Str0 == <<>>
Undefined == <<"#undefined">>      \* a missing property
NonString == <<"#number">>         \* a value without a .trim method

LowerLetters == <<"a", "b", "c", "d", "e", "f", "g", "h", "i", "j", "k", "l", "m",
                  "n", "o", "p", "q", "r", "s", "t", "u", "v", "w", "x", "y", "z">>
UpperLetters == <<"A", "B", "C", "D", "E", "F", "G", "H", "I", "J", "K", "L", "M",
                  "N", "O", "P", "Q", "R", "S", "T", "U", "V", "W", "X", "Y", "Z">>
WhiteSpace == {" ", "\t", "\n"}

ToUpperChar(c) ==
    IF \E i \in 1..26 : LowerLetters[i] = c
    THEN UpperLetters[CHOOSE i \in 1..26 : LowerLetters[i] = c]
    ELSE c

\* String.prototype.toUpperCase
ToUpperCase(s) == [i \in 1..Len(s) |-> ToUpperChar(s[i])]

RECURSIVE TrimStart(_)
TrimStart(s) ==
    IF s # <<>> /\ Head(s) \in WhiteSpace THEN TrimStart(Tail(s)) ELSE s

RECURSIVE TrimEnd(_)
TrimEnd(s) ==
    IF s # <<>> /\ s[Len(s)] \in WhiteSpace
    THEN TrimEnd(SubSeq(s, 1, Len(s) - 1))
    ELSE s

\* String.prototype.trim
Trim(s) == TrimEnd(TrimStart(s))

\* s => s.trim().toUpperCase()
TrimUpper(s) == ToUpperCase(Trim(s))

\* String.prototype.split(','): always at least one piece
RECURSIVE Split(_)
Split(s) ==
    IF \E i \in 1..Len(s) : s[i] = ","
    THEN LET i == CHOOSE j \in 1..Len(s) :
                     s[j] = "," /\ \A h \in 1..(j - 1) : s[h] # ","
         IN  <<SubSeq(s, 1, i - 1)>> \o Split(SubSeq(s, i + 1, Len(s)))
    ELSE <<s>>

\* truthiness of a string-valued property: present and not ''
Truthy(s) == s # Undefined /\ s # Str0

(***************************************************************************)
(* Permissive numeric parsing.  A parsed number is NaN or a value; floats  *)
(* are kept in hundredths (inputs carry at most two fraction digits).      *)
(***************************************************************************)
Digits == <<"0", "1", "2", "3", "4", "5", "6", "7", "8", "9">>
IsDigit(c) == \E d \in 1..10 : Digits[d] = c
DigitVal(c) == (CHOOSE d \in 1..10 : Digits[d] = c) - 1
NaN == [nan |-> TRUE, val |-> 0]
Num(v) == [nan |-> FALSE, val |-> v]

\* the longest prefix of s made of digits
RECURSIVE DigitPrefix(_)
DigitPrefix(s) ==
    IF s # <<>> /\ IsDigit(Head(s)) THEN <<Head(s)>> \o DigitPrefix(Tail(s)) ELSE <<>>

RECURSIVE DigitsValue(_)
DigitsValue(ds) ==
    IF ds = <<>> THEN 0 ELSE 10 * DigitsValue(SubSeq(ds, 1, Len(ds) - 1)) + DigitVal(ds[Len(ds)])

\* parseInt(x): undefined -> NaN; skips leading white space, optional sign,
\* then the longest digit prefix; NaN when there is no digit
ParseInt(x) ==
    IF x = Undefined THEN NaN
    ELSE LET t == TrimStart(x)
             neg == t # <<>> /\ Head(t) = "-"
             u == IF t # <<>> /\ Head(t) \in {"-", "+"} THEN Tail(t) ELSE t
             ds == DigitPrefix(u)
         IN  IF ds = <<>> THEN NaN
             ELSE Num(IF neg THEN 0 - DigitsValue(ds) ELSE DigitsValue(ds))

\* parseFloat(x), in hundredths: digits, optional '.' and fraction digits
ParseFloat(x) ==
    IF x = Undefined THEN NaN
    ELSE LET t == TrimStart(x)
             neg == t # <<>> /\ Head(t) = "-"
             u == IF t # <<>> /\ Head(t) \in {"-", "+"} THEN Tail(t) ELSE t
             ip == DigitPrefix(u)
             r == SubSeq(u, Len(ip) + 1, Len(u))
             fp == IF r # <<>> /\ Head(r) = "." THEN DigitPrefix(Tail(r)) ELSE <<>>
             f2 == SubSeq(fp \o <<"0", "0">>, 1, 2)
             mag == 100 * DigitsValue(ip) + DigitsValue(f2)
         IN  IF ip = <<>> /\ fp = <<>> THEN NaN
             ELSE Num(IF neg THEN 0 - mag ELSE mag)

\* n || 0 on a number: NaN and 0 are falsy
OrZero(n) == IF n.nan \/ n.val = 0 THEN 0 ELSE n.val

\* s || "" on an optional string
OrEmpty(s) == IF Truthy(s) THEN s ELSE Str0

\* x?.replace("%", ""): removes the first '%'; undefined stays undefined
ReplacePercent(x) ==
    IF x = Undefined THEN Undefined
    ELSE IF \E i \in 1..Len(x) : x[i] = "%"
         THEN LET i == CHOOSE j \in 1..Len(x) :
                          x[j] = "%" /\ \A h \in 1..(j - 1) : x[h] # "%"
              IN  SubSeq(x, 1, i - 1) \o SubSeq(x, i + 1, Len(x))
         ELSE x

(***************************************************************************)
(* Triggers.  path = event.pathParameters.symbol, query =                  *)
(* event.queryStringParameters.symbols, list = event.symbols.              *)
(***************************************************************************)
NoList == [kind |-> "undefined", elems |-> <<>>]
ArrayOf(es) == [kind |-> "array", elems |-> es]
NotAnArray == [kind |-> "string", elems |-> <<>>]   \* truthy, Array.isArray false

Event(p, q, l) == [path |-> p, query |-> q, list |-> l]

\* the triggers the handler is invoked with
Events ==
    { Event(<<" ", "a">>, <<"b">>, ArrayOf(<<<<"b">>>>)),   \* /stock/%20a plus other fields
      Event(Undefined, <<"a", ",", " ", "b">>, NoList),     \* ?symbols=a, b
      Event(Undefined, <<"a", ",", "a">>, NoList),          \* ?symbols=a,a
      Event(Str0, Str0, ArrayOf(<<<<"b", " ">>>>)),         \* { symbols: ["b "] }
      Event(Undefined, Undefined, ArrayOf(<<>>)),           \* { symbols: [] }
      Event(Undefined, Undefined, ArrayOf(<<<<"a">>, NonString>>)) }

\* every combination of a path parameter, a query value and a list
TriggerPaths == {Undefined, Str0, <<" ">>, <<"a", " ">>}
TriggerQueries == {Undefined, Str0, <<",">>, <<"b", ",", " ", "c">>}
TriggerLists == {NoList, NotAnArray, ArrayOf(<<>>), ArrayOf(<<<<"c">>>>)}
Triggers ==
    {Event(p, q, l) : p \in TriggerPaths, q \in TriggerQueries, l \in TriggerLists}

DEFAULT_SYMBOLS(v) ==
    IF v = "A"
    THEN << <<"A", "A", "P", "L">>, <<"M", "S", "F", "T">>, <<"A", "M", "Z", "N">>,
            <<"N", "V", "D", "A">>, <<"T", "S", "L", "A">>, <<"M", "E", "T", "A">>,
            <<"G", "O", "O", "G", "L">>, <<"B", "R", "K", ".", "B">>,
            <<"J", "P", "M">>, <<"J", "N", "J">> >>
    ELSE << <<"A", "A", "P", "L">>, <<"M", "S", "F", "T">>, <<"A", "M", "Z", "N">>,
            <<"N", "V", "D", "A">>, <<"T", "S", "L", "A">>, <<"M", "E", "T", "A">> >>

\* if (event.pathParameters && event.pathParameters.symbol)
PathGiven(event) == Truthy(event.path)

\* the resolution with the query value consulted before the path parameter
ResolveSymbolsQueryFirst(event, v) ==
    IF Truthy(event.query)
    THEN LET parts == Split(event.query)
         IN  [threw |-> FALSE,
              symbols |-> [i \in 1..Len(parts) |-> TrimUpper(parts[i])]]
    ELSE IF PathGiven(event)
    THEN [threw |-> FALSE, symbols |-> <<TrimUpper(event.path)>>]
    ELSE IF event.list.kind = "array"
    THEN LET es == event.list.elems
         IN  IF \E i \in 1..Len(es) : es[i] = NonString
             THEN [threw |-> TRUE, symbols |-> <<>>]
             ELSE [threw |-> FALSE,
                   symbols |-> [i \in 1..Len(es) |-> TrimUpper(es[i])]]
    ELSE [threw |-> FALSE, symbols |-> DEFAULT_SYMBOLS(v)]

\* the resolution with the query branch taken for every defined value,
\* the empty string included
ResolveSymbolsQueryDefined(event, v) ==
    IF PathGiven(event)
    THEN [threw |-> FALSE, symbols |-> <<TrimUpper(event.path)>>]
    ELSE IF event.query # Undefined
    THEN LET parts == Split(event.query)
         IN  [threw |-> FALSE,
              symbols |-> [i \in 1..Len(parts) |-> TrimUpper(parts[i])]]
    ELSE IF event.list.kind = "array"
    THEN LET es == event.list.elems
         IN  IF \E i \in 1..Len(es) : es[i] = NonString
             THEN [threw |-> TRUE, symbols |-> <<>>]
             ELSE [threw |-> FALSE,
                   symbols |-> [i \in 1..Len(es) |-> TrimUpper(es[i])]]
    ELSE [threw |-> FALSE, symbols |-> DEFAULT_SYMBOLS(v)]

\* the resolution without the final else branch
ResolveSymbolsNoDefault(event, v) ==
    IF PathGiven(event)
    THEN [threw |-> FALSE, symbols |-> <<TrimUpper(event.path)>>]
    ELSE IF Truthy(event.query)
    THEN LET parts == Split(event.query)
         IN  [threw |-> FALSE,
              symbols |-> [i \in 1..Len(parts) |-> TrimUpper(parts[i])]]
    ELSE IF event.list.kind = "array"
    THEN LET es == event.list.elems
         IN  IF \E i \in 1..Len(es) : es[i] = NonString
             THEN [threw |-> TRUE, symbols |-> <<>>]
             ELSE [threw |-> FALSE,
                   symbols |-> [i \in 1..Len(es) |-> TrimUpper(es[i])]]
    ELSE [threw |-> FALSE, symbols |-> <<>>]

\* Symbol-set resolution of exports.handler.  threw: a TypeError escaped to
\* the handler's catch (an element of event.symbols has no .trim).
ResolveSymbols(event, v) ==
    IF PathGiven(event)
    THEN [threw |-> FALSE, symbols |-> <<TrimUpper(event.path)>>]
    ELSE IF Truthy(event.query)
    THEN LET parts == Split(event.query)
         IN  [threw |-> FALSE,
              symbols |-> [i \in 1..Len(parts) |-> TrimUpper(parts[i])]]
    ELSE IF event.list.kind = "array"
    THEN LET es == event.list.elems
         IN  IF \E i \in 1..Len(es) : es[i] = NonString
             THEN [threw |-> TRUE, symbols |-> <<>>]
             ELSE [threw |-> FALSE,
                   symbols |-> [i \in 1..Len(es) |-> TrimUpper(es[i])]]
    ELSE [threw |-> FALSE, symbols |-> DEFAULT_SYMBOLS(v)]

(***************************************************************************)
(* Responses.  An error text is kept as the parts of its template literal. *)
(***************************************************************************)
Message(pre, arg, post) == [pre |-> pre, arg |-> arg, post |-> post]
NoSymbolsMessage == Message("No symbols provided.", Str0, "")
NotFoundMessage(symbol) == Message("Stock symbol '", symbol, "' not found.")
TypeErrorMessage == Message("s.trim is not a function", Str0, "")

NoResponse == [statusCode |-> 0]

successResponse(body) == [statusCode |-> 200, body |-> body]

errorResponse(message, clock) ==
    [statusCode |-> 400,
     body |-> [success |-> FALSE, error |-> message, timestamp |-> clock]]

(***************************************************************************)
(* Upstream provider (Alpha Vantage GLOBAL_QUOTE).                         *)
(***************************************************************************)
Null == [null |-> TRUE]

GlobalQuote(sym, price, change, pct, volume, day, prev, open, high, low) ==
    [defined |-> TRUE, symbol01 |-> sym, price05 |-> price, change09 |-> change,
     changePercent10 |-> pct, volume06 |-> volume, latestTradingDay07 |-> day,
     previousClose08 |-> prev, open02 |-> open, high03 |-> high, low04 |-> low]

EmptyGlobalQuote ==
    GlobalQuote(Undefined, Undefined, Undefined, Undefined, Undefined,
                Undefined, Undefined, Undefined, Undefined, Undefined)

MissingGlobalQuote == [EmptyGlobalQuote EXCEPT !.defined = FALSE]

\* Object.keys(global).length
KeyCount(g) ==
    Cardinality({f \in DOMAIN g \ {"defined"} : g[f] # Undefined})

Upstream(failure, errorMessage, note, global) ==
    [failure |-> failure, errorMessage |-> errorMessage, note |-> note,
     global |-> global]

FullQuote ==
    GlobalQuote(<<"X">>, <<"1", ".", "5", "0">>, <<"-", "0", ".", "2", "5">>,
                <<"0", ".", "5", "%">>, <<"1", "2">>, <<"d">>, <<"1", ".", "7", "5">>,
                <<"1">>, <<"2">>, <<"1">>)

UpstreamResponses ==
    { Upstream("network", Undefined, Undefined, MissingGlobalQuote),
      Upstream("timeout", Undefined, Undefined, MissingGlobalQuote),
      Upstream("none", <<"b", "a", "d">>, Undefined, MissingGlobalQuote),
      Upstream("none", Undefined, <<"l", "i", "m", "i", "t">>, MissingGlobalQuote),
      Upstream("none", Undefined, Undefined, MissingGlobalQuote),
      Upstream("none", Undefined, Undefined, EmptyGlobalQuote),
      Upstream("none", Undefined, Undefined, FullQuote) }

\* a strict parser: no quote when the price does not parse
BuildQuoteStrict(symbol, g) ==
    IF ParseFloat(g.price05).nan THEN Null
    ELSE [symbol |-> symbol,
          price |-> OrZero(ParseFloat(g.price05)),
          change |-> OrZero(ParseFloat(g.change09)),
          changePct |-> OrZero(ParseFloat(ReplacePercent(g.changePercent10))),
          volume |-> OrZero(ParseInt(g.volume06)),
          latestTradingDay |-> OrEmpty(g.latestTradingDay07),
          previousClose |-> OrZero(ParseFloat(g.previousClose08)),
          open |-> OrZero(ParseFloat(g.open02)),
          high |-> OrZero(ParseFloat(g.high03)),
          low |-> OrZero(ParseFloat(g.low04))]

\* the object literal returned by fetchFromAlphaVantage
BuildQuote(symbol, g) ==
    [symbol |-> symbol,
     price |-> OrZero(ParseFloat(g.price05)),
     change |-> OrZero(ParseFloat(g.change09)),
     changePct |-> OrZero(ParseFloat(ReplacePercent(g.changePercent10))),
     volume |-> OrZero(ParseInt(g.volume06)),
     latestTradingDay |-> OrEmpty(g.latestTradingDay07),
     previousClose |-> OrZero(ParseFloat(g.previousClose08)),
     open |-> OrZero(ParseFloat(g.open02)),
     high |-> OrZero(ParseFloat(g.high03)),
     low |-> OrZero(ParseFloat(g.low04))]

\* the client without the test of the rate-limit note
ParseUpstreamIgnoresNote(symbol, r) ==
    IF r.failure # "none" THEN Null
    ELSE IF Truthy(r.errorMessage) THEN Null
    ELSE IF ~r.global.defined \/ KeyCount(r.global) = 0 THEN Null
    ELSE BuildQuote(symbol, r.global)

\* fetchFromAlphaVantage once axios.get has settled with response r:
\* every throw inside the try block ends in `return null`
ParseUpstream(symbol, r) ==
    IF r.failure # "none" THEN Null
    ELSE IF Truthy(r.errorMessage) THEN Null
    ELSE IF Truthy(r.note) THEN Null
    ELSE IF ~r.global.defined \/ KeyCount(r.global) = 0 THEN Null
    ELSE BuildQuote(symbol, r.global)

\* the flag set to true on both returns of fetchQuoteWithCache
WithCachedSet(q, flag) == [cached |-> TRUE] @@ q

\* { ...q, cached: flag }
WithCached(q, flag) == [cached |-> flag] @@ q

(***************************************************************************)
(* Cache table.                                                            *)
(***************************************************************************)
NoItem == [none |-> TRUE]

\* new Date().toISOString().split('T')[0]
DateString(clock) == <<"D", Digits[(clock \div SecondsPerDay) + 1]>>

QuoteLiteral == <<"q", "u", "o", "t", "e">>

SortName(v) == IF v = "A" THEN "dataType" ELSE "date"

\* the Key built without the symbol
CacheKeySortOnly(v, symbol, clock) ==
    [symbol |-> QuoteLiteral, sortName |-> SortName(v),
     sortValue |-> IF v = "A" THEN QuoteLiteral ELSE DateString(clock)]

\* the Key of getFromCache
CacheKey(v, symbol, clock) ==
    [symbol |-> symbol, sortName |-> SortName(v),
     sortValue |-> IF v = "A" THEN QuoteLiteral ELSE DateString(clock)]

KeyOf(item) ==
    [symbol |-> item.symbol, sortName |-> item.sortName, sortValue |-> item.sortValue]

\* the Item with the TTL stored as a duration instead of an expiry time
CacheItemRelativeTtl(v, symbol, data, clock) ==
    [symbol |-> symbol, sortName |-> SortName(v),
     sortValue |-> IF v = "A" THEN QuoteLiteral ELSE DateString(clock),
     data |-> data, ttl |-> CACHE_TTL, timestamp |-> clock,
     updatedAt |-> clock]

\* the Item with a lifetime that depends on the symbol
CacheItemPerSymbolTtl(v, symbol, data, clock) ==
    [symbol |-> symbol, sortName |-> SortName(v),
     sortValue |-> IF v = "A" THEN QuoteLiteral ELSE DateString(clock),
     data |-> data,
     ttl |-> clock + (IF symbol = <<"A">> THEN CACHE_TTL ELSE CACHE_TTL + 1),
     timestamp |-> clock, updatedAt |-> clock]

\* the Item of saveToCache
CacheItem(v, symbol, data, clock) ==
    [symbol |-> symbol, sortName |-> SortName(v),
     sortValue |-> IF v = "A" THEN QuoteLiteral ELSE DateString(clock),
     data |-> data, ttl |-> clock + CACHE_TTL, timestamp |-> clock,
     updatedAt |-> clock]

\* DynamoDB GetItem
GetItem(items, key) ==
    IF \E it \in items : KeyOf(it) = key
    THEN CHOOSE it \in items : KeyOf(it) = key
    ELSE NoItem

\* DynamoDB PutItem: replaces the item under the same key
PutItem(items, item) ==
    {it \in items : KeyOf(it) # KeyOf(item)} \cup {item}

\* the freshness test without the comparison: any stored item is served
FreshIgnoresTtl(item, clock) == item # NoItem

\* the freshness test with the boundary moved one second early
FreshOffByOne(item, clock) == item # NoItem /\ item.ttl > clock + 1

\* the freshness test with an inclusive comparison
FreshInclusive(item, clock) == item # NoItem /\ item.ttl >= clock

\* result.Item && result.Item.ttl > Math.floor(Date.now() / 1000)
Fresh(item, clock) == item # NoItem /\ item.ttl > clock

(***************************************************************************)
(* State.                                                                  *)
(***************************************************************************)
VARIABLES
    variant,    \* which handler file is deployed
    apiKey,     \* whether ALPHA_VANTAGE_API_KEY is configured
    now,        \* Math.floor(Date.now() / 1000)
    table,      \* the items of the DynamoDB cache table
    inv,        \* the handler invocation in each Lambda execution environment
    saved,      \* history: per symbol, the item of the latest put that succeeded
    client      \* history: the latest call of fetchFromAlphaVantage made on its own

vars == <<variant, apiKey, now, table, inv, saved, client>>

NoCall == [called |-> FALSE]

\* the Lambda execution environments; an environment runs one invocation
\* at a time
Lanes == {1, 2}

\* the environment in use while invocations arrive one after the other
FirstLane == {1}

\* the latest item stored for a symbol, whatever its sort key
LatestSaved(items, symbol) ==
    IF \E it \in items : it.symbol = symbol
    THEN CHOOSE it \in items : it.symbol = symbol
    ELSE NoItem

\* One call of fetchQuoteWithCache.  pc is the await it is suspended at:
\*   "get"   dynamodb.get sent          "got"  its reply is in, not yet read
\*   "fetch" axios.get sent             "put"  dynamodb.put sent
\*   "done"  the promise has settled with `out`
\* The other fields record what the call did:
\*   prior      the latest stored item for the symbol when getFromCache began
\*   stable     no later put for the symbol succeeded before the comparison
\*   inWindow   the comparison ran before prior.timestamp + CACHE_TTL
\*   ttlAtRead  result.Item.ttl against the clock at the comparison
\*   calls, requests   entries of fetchFromAlphaVantage, axios.get sent
\*   fetched, fetchedAt   the quote it returned and the clock at that moment
\*   puts, putFailed   the items handed to dynamodb.put, the put's fate
NewSlot(v, symbol, clock, prior) ==
    [symbol |-> symbol, pc |-> "get", key |-> CacheKey(v, symbol, clock),
     prior |-> prior, stable |-> TRUE, inWindow |-> FALSE,
     result |-> [failed |-> FALSE, Item |-> NoItem], ttlAtRead |-> "unread",
     calls |-> 0, requests |-> 0, fetched |-> Null, fetchedAt |-> -1,
     puts |-> <<>>, putFailed |-> FALSE, out |-> Null]

\* how a reply's ttl stands against the clock
TtlAgainst(result, clock) ==
    IF result.failed THEN "failed"
    ELSE IF result.Item = NoItem THEN "absent"
    ELSE IF result.Item.ttl > clock THEN "gt"
    ELSE IF result.Item.ttl = clock THEN "eq"
    ELSE "lt"

\* the symbols with repeated entries dropped
RECURSIVE Distinct(_)
Distinct(symbols) ==
    IF symbols = <<>> THEN <<>>
    ELSE LET n == Len(symbols)
             front == Distinct(SubSeq(symbols, 1, n - 1))
         IN  IF \E j \in 1..(n - 1) : symbols[j] = symbols[n]
             THEN front
             ELSE Append(front, symbols[n])

\* a fan-out over the distinct symbols only
FanOutDistinct(v, symbols, clock, items) ==
    [i \in 1..Len(Distinct(symbols)) |->
        NewSlot(v, Distinct(symbols)[i], clock,
                LatestSaved(items, Distinct(symbols)[i]))]

\* symbols.map(fetchQuoteWithCache): one call per element, in order
FanOut(v, symbols, clock, items) ==
    [i \in 1..Len(symbols) |->
        NewSlot(v, symbols[i], clock, LatestSaved(items, symbols[i]))]

Idle ==
    [status |-> "idle", event |-> Event(Undefined, Undefined, NoList),
     symbols |-> <<>>, slots |-> <<>>, quotes |-> <<>>, response |-> NoResponse]

Init ==
    /\ variant \in Variants
    /\ apiKey \in BOOLEAN
    /\ now = 0
    /\ table = {}
    /\ inv = [k \in Lanes |-> Idle]
    /\ saved = {}
    /\ client = NoCall

\* the handler with the symbol resolution placed before its try block: the
\* TypeError of a non-string element escapes and there is no reply
InvokeResolutionOutsideTry(k, e) ==
    /\ inv[k].status \in {"idle", "done"}
    /\ LET r == ResolveSymbols(e, variant)
           fresh == [Idle EXCEPT !.event = e, !.symbols = r.symbols]
       IN  inv' = [inv EXCEPT ![k] =
                IF r.threw
                THEN [fresh EXCEPT !.status = "done", !.response = NoResponse]
                ELSE IF Len(r.symbols) = 0
                THEN [fresh EXCEPT !.status = "done",
                                   !.response = errorResponse(NoSymbolsMessage, now)]
                ELSE [fresh EXCEPT !.status = "running",
                                   !.slots = FanOut(variant, r.symbols, now, saved)]]
    /\ UNCHANGED <<client, variant, apiKey, now, table, saved>>

(***************************************************************************)
(* exports.handler up to `await Promise.all(...)`: resolves the symbols;   *)
(* each fetchQuoteWithCache call runs up to its dynamodb.get.              *)
(***************************************************************************)
Invoke(k, e) ==
    /\ inv[k].status \in {"idle", "done"}
    /\ LET r == ResolveSymbols(e, variant)
           fresh == [Idle EXCEPT !.event = e, !.symbols = r.symbols]
       IN  inv' = [inv EXCEPT ![k] =
                IF r.threw
                THEN [fresh EXCEPT !.status = "done",
                                   !.response = errorResponse(TypeErrorMessage, now)]
                ELSE IF Len(r.symbols) = 0
                THEN [fresh EXCEPT !.status = "done",
                                   !.response = errorResponse(NoSymbolsMessage, now)]
                ELSE [fresh EXCEPT !.status = "running",
                                   !.slots = FanOut(variant, r.symbols, now, saved)]]
    /\ UNCHANGED <<client, variant, apiKey, now, table, saved>>

(***************************************************************************)
(* The table answers a GetItem, or the request fails.                      *)
(***************************************************************************)
GetServe(k, i, fails) ==
    /\ inv[k].status = "running"
    /\ i \in 1..Len(inv[k].slots)
    /\ inv[k].slots[i].pc = "get"
    /\ LET s == inv[k].slots[i]
       IN  inv' = [inv EXCEPT ![k].slots[i] =
                [s EXCEPT !.pc = "got",
                          !.result = IF fails
                                     THEN [failed |-> TRUE, Item |-> NoItem]
                                     ELSE [failed |-> FALSE,
                                           Item |-> GetItem(table, s.key)]]]
    /\ UNCHANGED <<client, variant, apiKey, now, table, saved>>

\* getFromCache after its await: the cached data, or null
FromCache(result, clock) ==
    IF ~result.failed /\ Fresh(result.Item, clock) THEN result.Item.data ELSE Null

\* getFromCache without its catch: a failed read rejects, and
\* fetchQuoteWithCache's own catch turns it into null
GetReturnReadErrorEscapes(k, i) ==
    /\ inv[k].status = "running"
    /\ i \in 1..Len(inv[k].slots)
    /\ inv[k].slots[i].pc = "got"
    /\ LET s0 == inv[k].slots[i]
           s == [s0 EXCEPT
                    !.ttlAtRead = TtlAgainst(s0.result, now),
                    !.stable = (LatestSaved(saved, s0.symbol) = s0.prior),
                    !.inWindow = (s0.prior # NoItem
                                  /\ now < s0.prior.timestamp + CACHE_TTL)]
           cached == FromCache(s.result, now)
       IN  inv' = [inv EXCEPT ![k].slots[i] =
                IF s.result.failed
                THEN [s EXCEPT !.pc = "done", !.out = Null]
                ELSE IF cached # Null
                THEN [s EXCEPT !.pc = "done", !.out = WithCached(cached, TRUE)]
                ELSE IF ~apiKey
                THEN [s EXCEPT !.pc = "done", !.calls = @ + 1, !.out = Null]
                ELSE [s EXCEPT !.pc = "fetch", !.calls = @ + 1,
                               !.requests = @ + 1]]
    /\ UNCHANGED <<client, variant, apiKey, now, table, saved>>

\* fetchFromAlphaVantage without the test of API_KEY: the request is sent
\* with an undefined key
GetReturnNoKeyCheck(k, i) ==
    /\ inv[k].status = "running"
    /\ i \in 1..Len(inv[k].slots)
    /\ inv[k].slots[i].pc = "got"
    /\ LET s0 == inv[k].slots[i]
           s == [s0 EXCEPT
                    !.ttlAtRead = TtlAgainst(s0.result, now),
                    !.stable = (LatestSaved(saved, s0.symbol) = s0.prior),
                    !.inWindow = (s0.prior # NoItem
                                  /\ now < s0.prior.timestamp + CACHE_TTL)]
           cached == FromCache(s.result, now)
       IN  inv' = [inv EXCEPT ![k].slots[i] =
                IF cached # Null
                THEN [s EXCEPT !.pc = "done", !.out = WithCached(cached, TRUE)]
                ELSE [s EXCEPT !.pc = "fetch", !.calls = @ + 1,
                               !.requests = @ + 1]]
    /\ UNCHANGED <<client, variant, apiKey, now, table, saved>>

\* fetchQuoteWithCache with a sliding expiry: a hit rewrites the entry with
\* a new ttl
GetReturnTouchOnHit(k, i) ==
    /\ inv[k].status = "running"
    /\ i \in 1..Len(inv[k].slots)
    /\ inv[k].slots[i].pc = "got"
    /\ LET s0 == inv[k].slots[i]
           s == [s0 EXCEPT
                    !.ttlAtRead = TtlAgainst(s0.result, now),
                    !.stable = (LatestSaved(saved, s0.symbol) = s0.prior),
                    !.inWindow = (s0.prior # NoItem
                                  /\ now < s0.prior.timestamp + CACHE_TTL)]
           cached == FromCache(s.result, now)
       IN  /\ inv' = [inv EXCEPT ![k].slots[i] =
                IF cached # Null
                THEN [s EXCEPT !.pc = "done", !.out = WithCached(cached, TRUE)]
                ELSE IF ~apiKey
                THEN [s EXCEPT !.pc = "done", !.calls = @ + 1, !.out = Null]
                ELSE [s EXCEPT !.pc = "fetch", !.calls = @ + 1,
                               !.requests = @ + 1]]
           /\ table' = IF cached # Null
                       THEN PutItem(table, [s.result.Item EXCEPT
                                               !.ttl = now + CACHE_TTL + 1])
                       ELSE table
    /\ UNCHANGED <<client, variant, apiKey, now, saved>>

(***************************************************************************)
(* fetchQuoteWithCache resumes after getFromCache: a hit settles the call, *)
(* a miss enters fetchFromAlphaVantage, which throws without an API key    *)
(* and otherwise sends axios.get.                                          *)
(***************************************************************************)
GetReturn(k, i) ==
    /\ inv[k].status = "running"
    /\ i \in 1..Len(inv[k].slots)
    /\ inv[k].slots[i].pc = "got"
    /\ LET s0 == inv[k].slots[i]
           s == [s0 EXCEPT
                    !.ttlAtRead = TtlAgainst(s0.result, now),
                    !.stable = (LatestSaved(saved, s0.symbol) = s0.prior),
                    !.inWindow = (s0.prior # NoItem
                                  /\ now < s0.prior.timestamp + CACHE_TTL)]
           cached == FromCache(s.result, now)
       IN  inv' = [inv EXCEPT ![k].slots[i] =
                IF cached # Null
                THEN [s EXCEPT !.pc = "done", !.out = WithCached(cached, TRUE)]
                ELSE IF ~apiKey
                THEN [s EXCEPT !.pc = "done", !.calls = @ + 1, !.out = Null]
                ELSE [s EXCEPT !.pc = "fetch", !.calls = @ + 1,
                               !.requests = @ + 1]]
    /\ UNCHANGED <<client, variant, apiKey, now, table, saved>>

\* fetchFromAlphaVantage and fetchQuoteWithCache without their catch blocks:
\* a provider failure rejects Promise.all and the handler's catch replies
ProviderReturnErrorEscapes(k, i, r) ==
    /\ inv[k].status = "running"
    /\ i \in 1..Len(inv[k].slots)
    /\ inv[k].slots[i].pc = "fetch"
    /\ LET s == inv[k].slots[i]
           quote == ParseUpstream(s.symbol, r)
       IN  inv' = IF quote = Null
                  THEN [inv EXCEPT ![k].status = "done",
                                   ![k].slots[i] = [s EXCEPT !.pc = "done", !.out = Null],
                                   ![k].response =
                                       errorResponse(Message("Unknown error", Str0, ""), now)]
                  ELSE [inv EXCEPT ![k].slots[i] =
                           [s EXCEPT !.pc = "put", !.fetched = quote, !.fetchedAt = now,
                                     !.puts = Append(@, CacheItem(variant, s.symbol, quote, now))]]
    /\ UNCHANGED <<client, variant, apiKey, now, table, saved>>

\* fetchFromAlphaVantage with one more attempt after a failed request
ProviderReturnRetries(k, i, r) ==
    /\ inv[k].status = "running"
    /\ i \in 1..Len(inv[k].slots)
    /\ inv[k].slots[i].pc = "fetch"
    /\ LET s == inv[k].slots[i]
           quote == ParseUpstream(s.symbol, r)
       IN  inv' = [inv EXCEPT ![k].slots[i] =
                IF quote = Null /\ s.requests < 2
                THEN [s EXCEPT !.requests = @ + 1]
                ELSE IF quote = Null
                THEN [s EXCEPT !.pc = "done", !.out = Null]
                ELSE [s EXCEPT !.pc = "put", !.fetched = quote, !.fetchedAt = now,
                               !.puts = Append(@, CacheItem(variant, s.symbol, quote, now))]]
    /\ UNCHANGED <<client, variant, apiKey, now, table, saved>>

\* axios.get without its timeout option: a request the upstream never
\* answers stays pending, and so does the call that awaits it
ProviderReturnNoTimeout(k, i, r) ==
    /\ inv[k].status = "running"
    /\ i \in 1..Len(inv[k].slots)
    /\ inv[k].slots[i].pc = "fetch"
    /\ LET s == inv[k].slots[i]
           quote == ParseUpstream(s.symbol, r)
       IN  inv' = [inv EXCEPT ![k].slots[i] =
                IF r.failure = "timeout"
                THEN [s EXCEPT !.pc = "pending"]
                ELSE IF quote = Null
                THEN [s EXCEPT !.pc = "done", !.out = Null]
                ELSE [s EXCEPT !.pc = "put", !.fetched = quote, !.fetchedAt = now,
                               !.puts = Append(@, CacheItem(variant, s.symbol, quote, now))]]
    /\ UNCHANGED <<client, variant, apiKey, now, table, saved>>

(***************************************************************************)
(* axios.get settles with r: fetchFromAlphaVantage returns null or a       *)
(* quote; on a quote saveToCache builds the item and sends dynamodb.put.   *)
(***************************************************************************)
ProviderReturn(k, i, r) ==
    /\ inv[k].status = "running"
    /\ i \in 1..Len(inv[k].slots)
    /\ inv[k].slots[i].pc = "fetch"
    /\ LET s == inv[k].slots[i]
           quote == ParseUpstream(s.symbol, r)
       IN  inv' = [inv EXCEPT ![k].slots[i] =
                IF quote = Null
                THEN [s EXCEPT !.pc = "done", !.out = Null]
                ELSE [s EXCEPT !.pc = "put", !.fetched = quote, !.fetchedAt = now,
                               !.puts = Append(@, CacheItem(variant, s.symbol, quote, now))]]
    /\ UNCHANGED <<client, variant, apiKey, now, table, saved>>

\* saveToCache without its catch: a failed put rejects, and
\* fetchQuoteWithCache's own catch turns the fetched quote into null
PutReturnWriteErrorEscapes(k, i, fails) ==
    /\ inv[k].status = "running"
    /\ i \in 1..Len(inv[k].slots)
    /\ inv[k].slots[i].pc = "put"
    /\ LET s == inv[k].slots[i]
           item == s.puts[Len(s.puts)]
       IN  /\ table' = IF fails THEN table ELSE PutItem(table, item)
           /\ saved' = IF fails THEN saved
                       ELSE {it \in saved : it.symbol # item.symbol} \cup {item}
           /\ inv' = [inv EXCEPT ![k].slots[i] =
                    [s EXCEPT !.pc = "done", !.putFailed = fails,
                              !.out = IF fails THEN Null
                                      ELSE WithCached(s.fetched, FALSE)]]
    /\ UNCHANGED <<client, variant, apiKey, now>>

(***************************************************************************)
(* dynamodb.put settles: the item is written, or the request fails and     *)
(* saveToCache swallows the error; fetchQuoteWithCache returns the quote.  *)
(***************************************************************************)
PutReturn(k, i, fails) ==
    /\ inv[k].status = "running"
    /\ i \in 1..Len(inv[k].slots)
    /\ inv[k].slots[i].pc = "put"
    /\ LET s == inv[k].slots[i]
           item == s.puts[Len(s.puts)]
       IN  /\ table' = IF fails THEN table ELSE PutItem(table, item)
           /\ saved' = IF fails THEN saved
                       ELSE {it \in saved : it.symbol # item.symbol} \cup {item}
           /\ inv' = [inv EXCEPT ![k].slots[i] =
                    [s EXCEPT !.pc = "done", !.putFailed = fails,
                              !.out = WithCached(s.fetched, FALSE)]]
    /\ UNCHANGED <<client, variant, apiKey, now>>

NotNull(q) == q # Null
IsCached(q) == q.cached
NotCached(q) == ~q.cached

\* the SINGLE reply with the raw path parameter in the error text
ComposeSingleRawPath(event, symbols, quotes, clock) ==
    LET validQuotes == SelectSeq(quotes, NotNull)
    IN  IF Len(validQuotes) = 0
        THEN errorResponse(NotFoundMessage(event.path), clock)
        ELSE successResponse([symbol |-> symbols[1],
                              quote |-> validQuotes[1],
                              cached |-> validQuotes[1].cached \/ FALSE])

\* the SINGLE reply with the cached flag left at its default
ComposeSingleFlagDropped(event, symbols, quotes, clock) ==
    LET validQuotes == SelectSeq(quotes, NotNull)
    IN  IF Len(validQuotes) = 0
        THEN errorResponse(NotFoundMessage(symbols[1]), clock)
        ELSE successResponse([symbol |-> symbols[1],
                              quote |-> validQuotes[1],
                              cached |-> FALSE])

\* exports.handler, the /stock/{symbol} reply
ComposeSingle(event, symbols, quotes, clock) ==
    LET validQuotes == SelectSeq(quotes, NotNull)
    IN  IF Len(validQuotes) = 0
        THEN errorResponse(NotFoundMessage(symbols[1]), clock)
        ELSE successResponse([symbol |-> symbols[1],
                              quote |-> validQuotes[1],
                              cached |-> validQuotes[1].cached \/ FALSE])

\* the multi-symbol reply of a handler that fails the batch on any null
ComposeMultiAllOrNothing(v, quotes, clock) ==
    LET validQuotes == SelectSeq(quotes, NotNull)
        body == [quotes |-> validQuotes, timestamp |-> clock,
                 cached |-> Len(SelectSeq(validQuotes, IsCached)),
                 fresh |-> Len(SelectSeq(validQuotes, NotCached))]
    IN  IF Len(validQuotes) < Len(quotes)
        THEN errorResponse(Message("Unknown error", Str0, ""), clock)
        ELSE IF v = "A" THEN successResponse(body)
        ELSE successResponse([success |-> TRUE] @@ body)

\* the multi-symbol reply of a handler that treats an empty batch as an error
ComposeMultiEmptyIsError(v, quotes, clock) ==
    LET validQuotes == SelectSeq(quotes, NotNull)
        body == [quotes |-> validQuotes, timestamp |-> clock,
                 cached |-> Len(SelectSeq(validQuotes, IsCached)),
                 fresh |-> Len(SelectSeq(validQuotes, NotCached))]
    IN  IF Len(validQuotes) = 0
        THEN errorResponse(Message("No quotes found.", Str0, ""), clock)
        ELSE IF v = "A" THEN successResponse(body)
        ELSE successResponse([success |-> TRUE] @@ body)

\* the multi-symbol reply with every quote counted as fresh
ComposeMultiAllFresh(v, quotes, clock) ==
    LET validQuotes == SelectSeq(quotes, NotNull)
        body == [quotes |-> validQuotes, timestamp |-> clock,
                 cached |-> Len(SelectSeq(validQuotes, IsCached)),
                 fresh |-> Len(validQuotes)]
    IN  IF v = "A" THEN successResponse(body)
        ELSE successResponse([success |-> TRUE] @@ body)

\* exports.handler, the multi-symbol reply; the second handler file adds
\* success: true
ComposeMulti(v, quotes, clock) ==
    LET validQuotes == SelectSeq(quotes, NotNull)
        body == [quotes |-> validQuotes, timestamp |-> clock,
                 cached |-> Len(SelectSeq(validQuotes, IsCached)),
                 fresh |-> Len(SelectSeq(validQuotes, NotCached))]
    IN  IF v = "A" THEN successResponse(body)
        ELSE successResponse([success |-> TRUE] @@ body)

\* exports.handler after Promise.all has resolved with `quotes`
Compose(v, event, symbols, quotes, clock) ==
    IF PathGiven(event)
    THEN ComposeSingle(event, symbols, quotes, clock)
    ELSE ComposeMulti(v, quotes, clock)

\* the handler collecting the outcomes in the order the provider answered
\* (cache hits first), not in request order
RespondByCompletion(k) ==
    /\ inv[k].status = "running"
    /\ \A i \in 1..Len(inv[k].slots) : inv[k].slots[i].pc = "done"
    /\ LET n == Len(inv[k].slots)
           earlier(a, b) ==
               \/ inv[k].slots[a].fetchedAt < inv[k].slots[b].fetchedAt
               \/ inv[k].slots[a].fetchedAt = inv[k].slots[b].fetchedAt /\ a < b
           rank(a) == 1 + Cardinality({b \in 1..n : earlier(b, a)})
           quotes == [j \in 1..n |->
                         inv[k].slots[CHOOSE a \in 1..n : rank(a) = j].out]
       IN  inv' = [inv EXCEPT ![k].status = "done",
                              ![k].quotes = quotes,
                              ![k].response =
                                  Compose(variant, inv[k].event, inv[k].symbols, quotes, now)]
    /\ UNCHANGED <<client, variant, apiKey, now, table, saved>>

\* the handler replying as soon as one call has settled (Promise.race in
\* place of Promise.all); the unsettled calls count as null
RespondOnFirstSettled(k) ==
    /\ inv[k].status = "running"
    /\ \E i \in 1..Len(inv[k].slots) : inv[k].slots[i].pc = "done"
    /\ LET quotes == [i \in 1..Len(inv[k].slots) |-> inv[k].slots[i].out]
       IN  inv' = [inv EXCEPT ![k].status = "done",
                              ![k].quotes = quotes,
                              ![k].response =
                                  Compose(variant, inv[k].event, inv[k].symbols, quotes, now)]
    /\ UNCHANGED <<client, variant, apiKey, now, table, saved>>

(***************************************************************************)
(* Promise.all resolves once every call has settled; the handler replies.  *)
(***************************************************************************)
Respond(k) ==
    /\ inv[k].status = "running"
    /\ \A i \in 1..Len(inv[k].slots) : inv[k].slots[i].pc = "done"
    /\ LET quotes == [i \in 1..Len(inv[k].slots) |-> inv[k].slots[i].out]
       IN  inv' = [inv EXCEPT ![k].status = "done",
                              ![k].quotes = quotes,
                              ![k].response =
                                  Compose(variant, inv[k].event, inv[k].symbols, quotes, now)]
    /\ UNCHANGED <<client, variant, apiKey, now, table, saved>>

\* the clock advances
Tick ==
    /\ now < MaxTime
    /\ now' = now + 1
    /\ UNCHANGED <<client, variant, apiKey, table, inv, saved>>

\* DynamoDB's TTL sweep removes an item whose ttl has passed
Expire(item) ==
    /\ item \in table
    /\ item.ttl <= now
    /\ table' = table \ {item}
    /\ UNCHANGED <<client, variant, apiKey, now, inv, saved>>

Next ==
    \/ \E k \in FirstLane, e \in Events : Invoke(k, e)
    \/ \E k \in FirstLane : \E i \in 1..Len(inv[k].slots), f \in BOOLEAN : GetServe(k, i, f)
    \/ \E k \in FirstLane : \E i \in 1..Len(inv[k].slots) : GetReturn(k, i)
    \/ \E k \in FirstLane : \E i \in 1..Len(inv[k].slots), r \in UpstreamResponses :
           ProviderReturn(k, i, r)
    \/ \E k \in FirstLane : \E i \in 1..Len(inv[k].slots), f \in BOOLEAN : PutReturn(k, i, f)
    \/ \E k \in FirstLane : Respond(k)
    \/ Tick
    \/ \E item \in table : Expire(item)

Spec == Init /\ [][Next]_vars

(***************************************************************************)
(* The handler when every request it awaits settles: dynamodb.get and      *)
(* dynamodb.put return or fail, axios.get settles within its timeout of    *)
(* 10000 ms, and the event loop runs a continuation once its promise has   *)
(* settled.  Triggers, the clock and the TTL sweep are under no obligation.*)
(***************************************************************************)
Settles(k) ==
    /\ WF_vars(\E i \in 1..Len(inv[k].slots), f \in BOOLEAN : GetServe(k, i, f))
    /\ WF_vars(\E i \in 1..Len(inv[k].slots) : GetReturn(k, i))
    /\ WF_vars(\E i \in 1..Len(inv[k].slots), r \in UpstreamResponses :
                  ProviderReturn(k, i, r))
    /\ WF_vars(\E i \in 1..Len(inv[k].slots), f \in BOOLEAN : PutReturn(k, i, f))
    /\ WF_vars(Respond(k))

\* a SINGLE trigger, a MULTI trigger for two symbols, and the two triggers
\* that are answered before any call is started
LiveEvents ==
    { Event(<<" ", "a">>, <<"b">>, ArrayOf(<<<<"b">>>>)),   \* /stock/%20a plus other fields
      Event(Undefined, <<"a", ",", " ", "b">>, NoList),     \* ?symbols=a, b
      Event(Undefined, Undefined, ArrayOf(<<>>)),           \* { symbols: [] }
      Event(Undefined, Undefined, ArrayOf(<<<<"a">>, NonString>>)) }

NextLive ==
    \/ \E k \in FirstLane, e \in LiveEvents : Invoke(k, e)
    \/ \E k \in FirstLane : \E i \in 1..Len(inv[k].slots), f \in BOOLEAN : GetServe(k, i, f)
    \/ \E k \in FirstLane : \E i \in 1..Len(inv[k].slots) : GetReturn(k, i)
    \/ \E k \in FirstLane : \E i \in 1..Len(inv[k].slots), r \in UpstreamResponses :
           ProviderReturn(k, i, r)
    \/ \E k \in FirstLane : \E i \in 1..Len(inv[k].slots), f \in BOOLEAN : PutReturn(k, i, f)
    \/ \E k \in FirstLane : Respond(k)
    \/ Tick
    \/ \E item \in table : Expire(item)

SpecLive == Init /\ [][NextLive]_vars /\ \A k \in FirstLane : Settles(k)

(***************************************************************************)
(* The handler under every combination of trigger fields, the default list *)
(* included.  The cache table is unreachable and the replies to the calls  *)
(* of one invocation arrive in request order.                              *)
(***************************************************************************)
InOrder(k, i) == \A j \in 1..(i - 1) : inv[k].slots[j].pc = "done"

NextTriggers ==
    \/ \E k \in FirstLane, e \in Triggers : Invoke(k, e)
    \/ \E k \in FirstLane : \E i \in 1..Len(inv[k].slots) :
           InOrder(k, i) /\ GetServe(k, i, TRUE)
    \/ \E k \in FirstLane : \E i \in 1..Len(inv[k].slots) :
           InOrder(k, i) /\ GetReturn(k, i)
    \/ \E k \in FirstLane : \E i \in 1..Len(inv[k].slots), r \in UpstreamResponses :
           InOrder(k, i) /\ ProviderReturn(k, i, r)
    \/ \E k \in FirstLane : \E i \in 1..Len(inv[k].slots) :
           InOrder(k, i) /\ PutReturn(k, i, TRUE)
    \/ \E k \in FirstLane : Respond(k)

SpecTriggers == Init /\ [][NextTriggers]_vars

(***************************************************************************)
(* The handler while the cache table is unreachable: every dynamodb.get    *)
(* and every dynamodb.put fails.                                           *)
(***************************************************************************)
NextUnreachable ==
    \/ \E k \in FirstLane, e \in Events : Invoke(k, e)
    \/ \E k \in FirstLane : \E i \in 1..Len(inv[k].slots) : GetServe(k, i, TRUE)
    \/ \E k \in FirstLane : \E i \in 1..Len(inv[k].slots) : GetReturn(k, i)
    \/ \E k \in FirstLane : \E i \in 1..Len(inv[k].slots), r \in UpstreamResponses :
           ProviderReturn(k, i, r)
    \/ \E k \in FirstLane : \E i \in 1..Len(inv[k].slots) : PutReturn(k, i, TRUE)
    \/ \E k \in FirstLane : Respond(k)
    \/ Tick

SpecUnreachable == Init /\ [][NextUnreachable]_vars

(***************************************************************************)
(* Two execution environments serving invocations for one symbol at the    *)
(* same time, over the shared cache table.                                 *)
(***************************************************************************)
ConcurrentEvents == { Event(Undefined, <<"a">>, NoList) }     \* ?symbols=a

NextConcurrent ==
    \/ \E k \in Lanes, e \in ConcurrentEvents : Invoke(k, e)
    \/ \E k \in Lanes : \E i \in 1..Len(inv[k].slots), f \in BOOLEAN : GetServe(k, i, f)
    \/ \E k \in Lanes : \E i \in 1..Len(inv[k].slots) : GetReturn(k, i)
    \/ \E k \in Lanes : \E i \in 1..Len(inv[k].slots), r \in UpstreamResponses :
           ProviderReturn(k, i, r)
    \/ \E k \in Lanes : \E i \in 1..Len(inv[k].slots), f \in BOOLEAN : PutReturn(k, i, f)
    \/ \E k \in Lanes : Respond(k)
    \/ Tick
    \/ \E item \in table : Expire(item)

SpecConcurrent == Init /\ [][NextConcurrent]_vars

(***************************************************************************)
(* The handler deployed without ALPHA_VANTAGE_API_KEY, over a table that   *)
(* is empty or holds an entry written earlier by a deployment with the key.*)
(***************************************************************************)
StoredQuote == BuildQuote(<<"A">>, FullQuote)

InitNoKey ==
    /\ variant \in Variants
    /\ apiKey = FALSE
    /\ now = 0
    /\ table \in {{}, {CacheItem(variant, <<"A">>, StoredQuote, 0)}}
    /\ saved = table
    /\ inv = [k \in Lanes |-> Idle]
    /\ client = NoCall

NextNoKey ==
    \/ \E k \in FirstLane, e \in Events : Invoke(k, e)
    \/ \E k \in FirstLane : \E i \in 1..Len(inv[k].slots), f \in BOOLEAN : GetServe(k, i, f)
    \/ \E k \in FirstLane : \E i \in 1..Len(inv[k].slots) : GetReturn(k, i)
    \/ \E k \in FirstLane : Respond(k)
    \/ Tick
    \/ \E item \in table : Expire(item)

SpecNoKey == InitNoKey /\ [][NextNoKey]_vars

(***************************************************************************)
(* fetchFromAlphaVantage called on its own, over upstream replies with     *)
(* absent, empty, unparsable and well-formed fields.                       *)
(***************************************************************************)
\* fetchFromAlphaVantage(symbol) with the API key configured or not and r
\* the outcome of axios.get
fetchFromAlphaVantage(symbol, key, r) ==
    IF ~key THEN Null ELSE ParseUpstream(symbol, r)

QuoteFields ==
    {"symbol01", "open02", "high03", "low04", "price05", "volume06",
     "latestTradingDay07", "previousClose08", "change09", "changePercent10"}

\* values of a field of "Global Quote"
RawValues ==
    { Undefined, Str0, <<"a", "b", "c">>, <<"1", ".", "5", "0">>,
      <<"-", "0", ".", "2", "5">>, <<"1", "2", "x">>, <<"0", ".", "5", "%">>,
      <<"%", "5">> }

\* "Global Quote" objects: the full one with one field replaced, and the
\* ones with a single field
GlobalQuotes ==
    {[FullQuote EXCEPT ![f] = x] : f \in QuoteFields, x \in RawValues}
        \cup {[EmptyGlobalQuote EXCEPT ![f] = x] : f \in QuoteFields, x \in RawValues}

FieldValues == {Undefined, Str0, <<"t", "e", "x", "t">>}

ProviderReplies ==
    {Upstream(f, Undefined, Undefined, MissingGlobalQuote) : f \in {"network", "timeout"}}
        \cup {Upstream("none", em, note, g) :
                 em \in FieldValues, note \in FieldValues,
                 g \in {MissingGlobalQuote, EmptyGlobalQuote, FullQuote}}
        \cup {Upstream("none", Undefined, Undefined, g) : g \in GlobalQuotes}

FetchCall(symbol, r) ==
    /\ client' = [called |-> TRUE, symbol |-> symbol, sent |-> apiKey, reply |-> r,
                  quote |-> fetchFromAlphaVantage(symbol, apiKey, r)]
    /\ UNCHANGED <<variant, apiKey, now, table, inv, saved>>

NextProvider == \E r \in ProviderReplies : FetchCall(<<"A">>, r)

SpecProvider == Init /\ [][NextProvider]_vars

(***************************************************************************)
(* Properties.                                                             *)
(***************************************************************************)
SlotIds == UNION {{<<k, i>> : i \in 1..Len(inv[k].slots)} : k \in Lanes}
Slot(id) == inv[id[1]].slots[id[2]]

\* q is the quote d with the flag `cached` set to flag, and nothing else
IsQuoteWithFlag(q, d, flag) ==
    /\ q # Null
    /\ DOMAIN q = DOMAIN d \cup {"cached"}
    /\ q.cached = flag
    /\ \A f \in DOMAIN d : q[f] = d[f]

\* C1: when the lookup finds an entry whose expiry is strictly greater than
\* the clock, fetchQuoteWithCache settles with that entry's quote marked
\* cached = true, without entering the provider client, without an upstream
\* request and without a cache put.
C1_FreshEntryServedWithoutProvider ==
    \A id \in SlotIds :
        LET s == Slot(id)
        IN  s.ttlAtRead = "gt" =>
                /\ s.pc = "done"
                /\ IsQuoteWithFlag(s.out, s.result.Item.data, TRUE)
                /\ s.calls = 0
                /\ s.requests = 0
                /\ s.puts = <<>>

\* a call has been served from an entry that was fresh when it was compared
C1_Witness ==
    \E id \in SlotIds :
        /\ Slot(id).ttlAtRead = "gt"
        /\ Slot(id).pc = "done"
        /\ Slot(id).out # Null
        /\ Slot(id).out.cached

\* C2: when the stored entry's expiry is less than or equal to the clock
\* (equality included) getFromCache returns null although the entry was
\* read from the table, and the call goes on as on a miss: it enters the
\* provider client once, sends the upstream request when the API key is
\* configured, and never settles with a cached quote.
C2_ExpiredEntryIsAMiss ==
    \A id \in SlotIds :
        LET s == Slot(id)
        IN  s.ttlAtRead \in {"eq", "lt"} =>
                /\ s.result.Item # NoItem
                /\ s.calls = 1
                /\ s.requests = (IF apiKey THEN 1 ELSE 0)
                /\ s.pc \in {"fetch", "put", "done"}
                /\ s.out = Null \/ s.out.cached = FALSE

\* an entry whose expiry equals the clock was read, is still in the table,
\* and the upstream request has been sent
C2_Witness ==
    \E id \in SlotIds :
        /\ Slot(id).ttlAtRead = "eq"
        /\ Slot(id).result.Item \in table
        /\ Slot(id).result.Item.ttl = now
        /\ Slot(id).pc = "fetch"
        /\ Slot(id).requests = 1

\* C3: round trip in each handler variant: a lookup of X that begins after
\* saveToCache(X, q) succeeded at t, with no later store for X and a
\* reachable table, and that compares at t' < t + CACHE_TTL, returns q.
C3_RoundTripBeforeExpiry ==
    \A id \in SlotIds :
        LET s == Slot(id)
        IN  (/\ s.ttlAtRead \notin {"unread", "failed"}
             /\ s.prior # NoItem
             /\ s.stable
             /\ s.inWindow)
            => IsQuoteWithFlag(s.out, s.prior.data, TRUE)

\* the round trip as it holds for the handler keyed by dataType = 'quote'
C3_RoundTripDataTypeKey == (variant = "A") => C3_RoundTripBeforeExpiry

\* the call has come back from the provider without a quote
ProviderFailed(s) == s.requests = 1 /\ s.fetched = Null /\ s.pc = "done"

\* what a settled call returns, read off its own cache reply and its own
\* provider reply
OwnOutcome(s) ==
    IF s.ttlAtRead = "gt" THEN IsQuoteWithFlag(s.out, s.result.Item.data, TRUE)
    ELSE IF s.fetched # Null THEN IsQuoteWithFlag(s.out, s.fetched, FALSE)
    ELSE s.out = Null

\* S is raw with the white space at both ends removed and every letter
\* upper-cased
IsTrimUpperOf(S, raw) ==
    \E a \in 1..(Len(raw) + 1), b \in 0..Len(raw) :
        /\ \A h \in 1..(a - 1) : raw[h] \in WhiteSpace
        /\ \A h \in (b + 1)..Len(raw) : raw[h] \in WhiteSpace
        /\ \/ a > b /\ S = <<>>
           \/ /\ a <= b
              /\ raw[a] \notin WhiteSpace
              /\ raw[b] \notin WhiteSpace
              /\ Len(S) = b - a + 1
              /\ \A h \in 1..Len(S) :
                    /\ S[h] = ToUpperChar(raw[a + h - 1])
                    /\ \A c \in 1..26 : S[h] # LowerLetters[c]

\* C4: when a call misses and the provider returns quote q, the call hands
\* exactly one item to dynamodb.put, for its own symbol, carrying q and
\* ttl = (clock at that moment) + CACHE_TTL, whether the put then succeeds
\* or fails; a call without a provider quote hands over none.
C4_OnePutPerProviderSuccess ==
    \A id \in SlotIds :
        LET s == Slot(id)
        IN  /\ s.fetched # Null =>
                /\ s.pc \in {"put", "done"}
                /\ s.ttlAtRead # "gt"
                /\ Len(s.puts) = 1
                /\ s.puts[1].symbol = s.symbol
                /\ s.puts[1].data = s.fetched
                /\ s.puts[1].ttl = s.fetchedAt + CACHE_TTL
            /\ s.fetched = Null => s.puts = <<>>

\* a call whose single put failed, issued after the clock had advanced
C4_Witness ==
    \E id \in SlotIds :
        /\ Slot(id).pc = "done"
        /\ Slot(id).putFailed
        /\ Len(Slot(id).puts) = 1
        /\ Slot(id).fetchedAt > 0

\* C5: when the provider returned a quote and the put failed, the call
\* still settles with that quote and cached = false, and the reply of the
\* invocation is a success payload carrying it.
C5_PutFailureKeepsQuote ==
    \A k \in Lanes : \A i \in 1..Len(inv[k].slots) :
        LET s == inv[k].slots[i]
            r == inv[k].response
        IN  s.putFailed =>
                /\ s.pc = "done"
                /\ s.fetched # Null
                /\ IsQuoteWithFlag(s.out, s.fetched, FALSE)
                /\ inv[k].status = "done" =>
                      /\ r.statusCode = 200
                      /\ IF PathGiven(inv[k].event)
                         THEN r.body.quote = s.out /\ r.body.cached = FALSE
                         ELSE \E j \in 1..Len(r.body.quotes) : r.body.quotes[j] = s.out

\* an invocation has replied although the put of one of its calls failed
C5_Witness ==
    \E k \in Lanes : \E i \in 1..Len(inv[k].slots) :
        /\ inv[k].slots[i].putFailed
        /\ inv[k].status = "done"
        /\ inv[k].response.statusCode = 200

\* C6: when the cache get fails the call goes on as on a miss: it enters
\* the provider client once, settles with the provider's quote and
\* cached = false when there is one and with null otherwise, and the reply
\* is a success payload or, for /stock/{symbol} without a quote, the
\* not-found error.
C6_GetFailureIsAMiss ==
    \A k \in Lanes : \A i \in 1..Len(inv[k].slots) :
        LET s == inv[k].slots[i]
            r == inv[k].response
        IN  s.ttlAtRead = "failed" =>
                /\ s.calls = 1
                /\ s.requests = (IF apiKey THEN 1 ELSE 0)
                /\ s.pc \in {"fetch", "put", "done"}
                /\ s.pc = "done" =>
                      IF s.fetched # Null
                      THEN IsQuoteWithFlag(s.out, s.fetched, FALSE)
                      ELSE s.out = Null
                /\ inv[k].status = "done" =>
                      \/ r.statusCode = 200
                      \/ /\ PathGiven(inv[k].event)
                         /\ s.out = Null
                         /\ r.body.error = NotFoundMessage(inv[k].symbols[1])

\* an invocation has replied with the fresh quote of a call whose get failed
C6_Witness ==
    \E k \in Lanes : \E i \in 1..Len(inv[k].slots) :
        /\ inv[k].slots[i].ttlAtRead = "failed"
        /\ inv[k].slots[i].out # Null
        /\ inv[k].status = "done"
        /\ inv[k].response.statusCode = 200

\* C7: in an invocation with several symbols, a call whose provider request
\* failed settles with null and writes nothing, every sibling call still
\* runs to its end and settles with what its own cache reply and its own
\* provider reply determine, and the reply is a success payload carrying
\* every sibling's quote.
C7_ProviderFailureIsolated ==
    \A k \in Lanes : \A i \in 1..Len(inv[k].slots) :
        LET s == inv[k].slots[i]
            r == inv[k].response
        IN  (ProviderFailed(s) /\ Len(inv[k].slots) > 1) =>
                /\ s.out = Null
                /\ s.puts = <<>>
                /\ \A j \in 1..Len(inv[k].slots) \ {i} :
                      LET t == inv[k].slots[j]
                      IN  /\ t.pc = "done" => OwnOutcome(t)
                          /\ inv[k].status = "done" =>
                                /\ t.pc = "done"
                                /\ r.statusCode = 200
                                /\ t.out # Null =>
                                      \E h \in 1..Len(r.body.quotes) :
                                          r.body.quotes[h] = t.out

\* a reply carries the quote of a call whose sibling failed at the provider
C7_Witness ==
    \E k \in Lanes : \E i, j \in 1..Len(inv[k].slots) :
        /\ i # j
        /\ ProviderFailed(inv[k].slots[i])
        /\ inv[k].slots[j].out # Null
        /\ inv[k].status = "done"
        /\ inv[k].response.statusCode = 200
        /\ Len(inv[k].response.body.quotes) = 1

\* C8: the fan-out runs one call per element of the resolved sequence,
\* duplicates included, and Promise.all yields one outcome per element:
\* as many outcomes as symbols, the i-th one that of the i-th symbol.
C8_OneOutcomePerSymbol ==
    \A k \in Lanes :
        /\ inv[k].status = "running" =>
              /\ Len(inv[k].slots) = Len(inv[k].symbols)
              /\ \A i \in 1..Len(inv[k].slots) :
                    inv[k].slots[i].symbol = inv[k].symbols[i]
        /\ inv[k].status = "done" =>
              /\ Len(inv[k].quotes) = Len(inv[k].symbols)
              /\ \A i \in 1..Len(inv[k].quotes) :
                    \/ inv[k].quotes[i] = Null
                    \/ inv[k].quotes[i].symbol = inv[k].symbols[i]

\* an invocation for a sequence with a repeated symbol has two outcomes
C8_Witness ==
    \E k \in Lanes :
        /\ inv[k].status = "done"
        /\ Len(inv[k].symbols) = 2
        /\ inv[k].symbols[1] = inv[k].symbols[2]
        /\ Len(inv[k].quotes) = 2
        /\ inv[k].quotes[1] # Null

\* C9: for /stock/{symbol}, when the sole outcome is null the reply is the
\* error payload (status 400, success = false) whose text is
\* "Stock symbol '<S>' not found." with <S> the path parameter trimmed and
\* upper-cased.
C9_SingleAbsentIsNotFound ==
    \A k \in Lanes :
        LET r == inv[k].response
        IN  (/\ inv[k].status = "done"
             /\ PathGiven(inv[k].event)
             /\ inv[k].quotes = <<Null>>)
            => /\ r.statusCode = 400
               /\ DOMAIN r.body = {"success", "error", "timestamp"}
               /\ r.body.success = FALSE
               /\ r.body.error.pre = "Stock symbol '"
               /\ r.body.error.post = "' not found."
               /\ IsTrimUpperOf(r.body.error.arg, inv[k].event.path)

\* a /stock/{symbol} invocation has replied after its only call came back
\* from the provider without a quote
C9_Witness ==
    \E k \in Lanes :
        /\ inv[k].status = "done"
        /\ PathGiven(inv[k].event)
        /\ inv[k].quotes = <<Null>>
        /\ ProviderFailed(inv[k].slots[1])
        /\ inv[k].response.statusCode = 400

\* C10: for /stock/{symbol}, when the sole outcome is a quote the reply is
\* the status-200 payload {symbol, quote, cached}: symbol is the requested
\* symbol, quote is the outcome and is a quote of that symbol, cached is
\* true exactly when the call was served from a fresh cache entry and false
\* exactly when the quote came from the provider.
C10_SingleQuotePayload ==
    \A k \in Lanes :
        LET r == inv[k].response
        IN  (/\ inv[k].status = "done"
             /\ PathGiven(inv[k].event)
             /\ Len(inv[k].quotes) = 1
             /\ inv[k].quotes[1] # Null)
            => LET s == inv[k].slots[1]
               IN  /\ r.statusCode = 200
                   /\ DOMAIN r.body = {"symbol", "quote", "cached"}
                   /\ r.body.symbol = inv[k].symbols[1]
                   /\ IsTrimUpperOf(r.body.symbol, inv[k].event.path)
                   /\ r.body.quote = s.out
                   /\ r.body.quote.symbol = r.body.symbol
                   /\ r.body.cached <=> (s.ttlAtRead = "gt" /\ s.calls = 0)
                   /\ ~r.body.cached <=> (s.fetched # Null /\ s.requests = 1)

\* a /stock/{symbol} reply served from the cache
C10_Witness ==
    \E k \in Lanes :
        /\ inv[k].status = "done"
        /\ PathGiven(inv[k].event)
        /\ inv[k].response.statusCode = 200
        /\ inv[k].response.body.cached
        /\ inv[k].slots[1].ttlAtRead = "gt"

\* the number of elements of a sequence of calls that satisfy Test
CountSlots(slots, Test(_)) == Cardinality({i \in 1..Len(slots) : Test(slots[i])})

ServedFromCache(s) == s.ttlAtRead = "gt" /\ s.calls = 0
FetchedFromProvider(s) == s.fetched # Null /\ s.requests = 1

\* the reply has the multi-symbol layout {quotes, timestamp, cached, fresh}
\* (with success: true in the second handler file)
IsMultiBody(body) ==
    DOMAIN body = {"quotes", "timestamp", "cached", "fresh"}
                      \cup (IF variant = "B" THEN {"success"} ELSE {})

\* C11: in a multi-symbol invocation whose every outcome is null, the reply
\* is the status-200 payload with an empty quotes list, cached = 0 and
\* fresh = 0, and carries no error.
C11_AllAbsentBatchIsSuccess ==
    \A k \in Lanes :
        LET r == inv[k].response
        IN  (/\ inv[k].status = "done"
             /\ ~PathGiven(inv[k].event)
             /\ Len(inv[k].quotes) > 0
             /\ \A i \in 1..Len(inv[k].quotes) : inv[k].quotes[i] = Null)
            => /\ r.statusCode = 200
               /\ IsMultiBody(r.body)
               /\ r.body.quotes = <<>>
               /\ r.body.cached = 0
               /\ r.body.fresh = 0

\* a two-symbol invocation has replied after both calls failed at the
\* provider
C11_Witness ==
    \E k \in Lanes :
        /\ inv[k].status = "done"
        /\ ~PathGiven(inv[k].event)
        /\ inv[k].quotes = <<Null, Null>>
        /\ ProviderFailed(inv[k].slots[1])
        /\ ProviderFailed(inv[k].slots[2])
        /\ inv[k].response.statusCode = 200

\* C12: the quotes list of a multi-symbol reply is the sequence of non-null
\* outcomes in request order; cached is the number of calls served from a
\* fresh cache entry, fresh the number of calls that fetched their quote
\* from the provider, and cached + fresh is the length of the list.
C12_MultiCounts ==
    \A k \in Lanes :
        LET r == inv[k].response
            outs == [i \in 1..Len(inv[k].slots) |-> inv[k].slots[i].out]
        IN  (/\ inv[k].status = "done"
             /\ ~PathGiven(inv[k].event)
             /\ Len(inv[k].slots) > 0)
            => /\ r.statusCode = 200
               /\ r.body.quotes = SelectSeq(outs, NotNull)
               /\ r.body.cached = CountSlots(inv[k].slots, ServedFromCache)
               /\ r.body.fresh = CountSlots(inv[k].slots, FetchedFromProvider)
               /\ r.body.cached + r.body.fresh = Len(r.body.quotes)

\* a two-symbol reply with one quote from the cache and one from the provider
C12_Witness ==
    \E k \in Lanes :
        /\ inv[k].status = "done"
        /\ ~PathGiven(inv[k].event)
        /\ Len(inv[k].slots) = 2
        /\ Len(inv[k].response.body.quotes) = 2
        /\ inv[k].response.body.cached = 1
        /\ inv[k].response.body.fresh = 1

\* the scenario of an empty cache and a provider quote for every symbol
C12_AllFreshScenario ==
    \E k \in Lanes :
        /\ inv[k].status = "done"
        /\ ~PathGiven(inv[k].event)
        /\ Len(inv[k].slots) = 2
        /\ \A i \in 1..2 : inv[k].slots[i].ttlAtRead = "absent"
        /\ Len(inv[k].response.body.quotes) = 2
        /\ inv[k].response.body.cached = 0
        /\ inv[k].response.body.fresh = 2

\* C13: a multi-symbol invocation that started its calls replies with
\* status 200 whatever cache gets, cache puts and provider requests failed;
\* an invocation that started its calls replies with an error only for
\* /stock/{symbol} with a null outcome, and then with the not-found error.
C13_FailuresNeverFailTheBatch ==
    \A k \in Lanes :
        LET r == inv[k].response
        IN  (inv[k].status = "done" /\ Len(inv[k].slots) > 0)
            => /\ ~PathGiven(inv[k].event) => r.statusCode = 200
               /\ r.statusCode # 200 =>
                     /\ PathGiven(inv[k].event)
                     /\ inv[k].quotes = <<Null>>
                     /\ r.statusCode = 400
                     /\ r.body.error = NotFoundMessage(inv[k].symbols[1])

\* a two-symbol invocation has replied with status 200 after a failed get
\* and a failed provider request in one call and a failed put in the other
C13_Witness ==
    \E k \in Lanes : \E i, j \in 1..Len(inv[k].slots) :
        /\ i # j
        /\ inv[k].status = "done"
        /\ ~PathGiven(inv[k].event)
        /\ inv[k].slots[i].ttlAtRead = "failed"
        /\ ProviderFailed(inv[k].slots[i])
        /\ inv[k].slots[j].putFailed
        /\ inv[k].response.statusCode = 200

\* the reply has the /stock/{symbol} layout: {symbol, quote, cached}, or
\* the not-found error
IsSingleReply(r) ==
    \/ r.statusCode = 200 /\ DOMAIN r.body = {"symbol", "quote", "cached"}
    \/ /\ r.statusCode = 400
       /\ r.body.error.pre = "Stock symbol '"
       /\ r.body.error.post = "' not found."

\* the number of commas of a string
CommaCount(s) == Cardinality({i \in 1..Len(s) : s[i] = ","})

\* the i-th comma-separated piece of s
Piece(s, i) ==
    LET commas == {j \in 1..Len(s) : s[j] = ","}
        before(j) == Cardinality({h \in commas : h < j})
        start == IF i = 1 THEN 1
                 ELSE (CHOOSE j \in commas : before(j) = i - 2) + 1
        stop == IF i = CommaCount(s) + 1 THEN Len(s)
                ELSE (CHOOSE j \in commas : before(j) = i - 1) - 1
    IN  SubSeq(s, start, stop)

\* C14: resolution is first match wins over path parameter, query value,
\* list, default list (a source is present when it carries a non-empty
\* value; the list when it is an array).  With a path parameter the
\* sequence is that one symbol, trimmed and upper-cased, and the reply has
\* the /stock/{symbol} layout, whatever the query value and the list are;
\* without one the reply has the multi-symbol layout and the sequence is
\* read off the first present source alone.
C14_FirstMatchWins ==
    \A k \in Lanes :
        LET e == inv[k].event
            S == inv[k].symbols
            r == inv[k].response
        IN  inv[k].status # "idle" =>
              /\ PathGiven(e) =>
                    /\ Len(S) = 1
                    /\ IsTrimUpperOf(S[1], e.path)
                    /\ inv[k].status = "done" => IsSingleReply(r)
              /\ ~PathGiven(e) =>
                    /\ (inv[k].status = "done" /\ S # <<>>) =>
                          r.statusCode = 200 /\ IsMultiBody(r.body)
                    /\ IF Truthy(e.query)
                       THEN /\ Len(S) = CommaCount(e.query) + 1
                            /\ \A i \in 1..Len(S) :
                                  IsTrimUpperOf(S[i], Piece(e.query, i))
                       ELSE IF e.list.kind = "array"
                       THEN /\ Len(S) = Len(e.list.elems)
                            /\ \A i \in 1..Len(S) :
                                  IsTrimUpperOf(S[i], e.list.elems[i])
                       ELSE S = DEFAULT_SYMBOLS(variant)

\* a trigger with a path parameter, a query value and a list has been
\* answered with the quote of the path symbol
C14_Witness ==
    \E k \in Lanes :
        /\ inv[k].status = "done"
        /\ PathGiven(inv[k].event)
        /\ Truthy(inv[k].event.query)
        /\ inv[k].event.list = ArrayOf(<<<<"c">>>>)
        /\ inv[k].response.statusCode = 200
        /\ inv[k].response.body.symbol = <<"A">>

\* the handler has replied with the error "No symbols provided."
NoSymbolsReply(k) ==
    /\ inv[k].status = "done"
    /\ inv[k].response.statusCode = 400
    /\ inv[k].response.body.error = NoSymbolsMessage

\* C15 as claimed: the reply is the error "No symbols provided." exactly
\* when the trigger has no path symbol and carries an empty symbols string,
\* or no symbols string and an empty symbols list.
C15_EmptyListOrEmptyString ==
    \A k \in Lanes :
        LET e == inv[k].event
        IN  inv[k].status = "done" =>
                (NoSymbolsReply(k) <=>
                    /\ ~PathGiven(e)
                    /\ \/ e.query = Str0
                       \/ e.query = Undefined /\ e.list = ArrayOf(<<>>))

\* C15: the reply is the error "No symbols provided.", with no cache or
\* provider call made, exactly when the trigger has no path symbol, no
\* non-empty symbols string and an empty symbols list; an empty symbols
\* string counts as no string at all.
C15_NoSymbolsIffEmptyList ==
    \A k \in Lanes :
        LET e == inv[k].event
        IN  /\ inv[k].status = "done" =>
                (NoSymbolsReply(k) <=>
                    /\ ~PathGiven(e)
                    /\ ~Truthy(e.query)
                    /\ e.list = ArrayOf(<<>>))
            /\ NoSymbolsReply(k) => inv[k].slots = <<>>

\* the error reply to an empty list sent along with an empty symbols string
C15_Witness ==
    \E k \in Lanes :
        /\ NoSymbolsReply(k)
        /\ inv[k].event.query = Str0
        /\ inv[k].event.list = ArrayOf(<<>>)

\* C16: a trigger without a path parameter, a query value or a list
\* resolves to the default list of the deployed handler, one call per
\* default symbol, and is answered with the multi-symbol layout.
C16_NoInformationMeansDefaults ==
    \A k \in Lanes :
        (inv[k].status # "idle" /\ inv[k].event = Event(Undefined, Undefined, NoList))
        => /\ inv[k].symbols = DEFAULT_SYMBOLS(variant)
           /\ Len(inv[k].symbols) = (IF variant = "A" THEN 10 ELSE 6)
           /\ inv[k].symbols[1] = <<"A", "A", "P", "L">>
           /\ inv[k].status = "running" =>
                 /\ Len(inv[k].slots) = Len(inv[k].symbols)
                 /\ \A i \in 1..Len(inv[k].slots) :
                       inv[k].slots[i].symbol = inv[k].symbols[i]
           /\ inv[k].status = "done" =>
                 /\ inv[k].response.statusCode = 200
                 /\ IsMultiBody(inv[k].response.body)
                 /\ \A j \in 1..Len(inv[k].response.body.quotes) :
                       \E i \in 1..Len(inv[k].symbols) :
                           inv[k].response.body.quotes[j].symbol = inv[k].symbols[i]

\* the empty trigger has been answered with a quote for every default symbol
C16_Witness ==
    \E k \in Lanes :
        /\ inv[k].status = "done"
        /\ inv[k].event = Event(Undefined, Undefined, NoList)
        /\ inv[k].response.statusCode = 200
        /\ Len(inv[k].response.body.quotes) = Len(DEFAULT_SYMBOLS(variant))
        /\ inv[k].response.body.fresh = Len(DEFAULT_SYMBOLS(variant))

\* C17: a reply exists only once every call of the invocation has settled:
\* while a call is waiting for its cache get, its provider request or its
\* cache put there is no reply, and the reply is composed from one settled
\* outcome per call.
C17_FanInBarrier ==
    \A k \in Lanes :
        /\ inv[k].status = "running" => inv[k].response = NoResponse
        /\ inv[k].response # NoResponse =>
              /\ inv[k].status = "done"
              /\ \A i \in 1..Len(inv[k].slots) : inv[k].slots[i].pc = "done"
              /\ inv[k].quotes =
                     [i \in 1..Len(inv[k].slots) |-> inv[k].slots[i].out]

\* a reply composed after one call was served from the cache and the other
\* went through the provider request and the cache put
C17_Witness ==
    \E k \in Lanes : \E i, j \in 1..Len(inv[k].slots) :
        /\ inv[k].response # NoResponse
        /\ ServedFromCache(inv[k].slots[i])
        /\ Len(inv[k].slots[j].puts) = 1
        /\ inv[k].slots[j].pc = "done"

\* the cache keys a call reads or writes
KeysTouched(s) == {s.key} \cup {KeyOf(s.puts[j]) : j \in 1..Len(s.puts)}

\* C18 as claimed: whatever the sequence, repeated symbols included, no two
\* unsettled calls of one invocation read or write the same cache key, and
\* each call sends at most one upstream request.
C18_NoSharedCacheKey ==
    \A k \in Lanes : \A i, j \in 1..Len(inv[k].slots) :
        LET s == inv[k].slots[i]
            t == inv[k].slots[j]
        IN  /\ s.requests <= 1
            /\ (i # j /\ s.pc # "done" /\ t.pc # "done")
                   => KeysTouched(s) \cap KeysTouched(t) = {}

\* C18: two calls of one invocation for different symbols read and write
\* different cache keys, every key a call touches is a key of its own
\* symbol, and each call enters the provider client and sends an upstream
\* request at most once.
C18_DistinctSymbolsDistinctKeys ==
    \A k \in Lanes : \A i, j \in 1..Len(inv[k].slots) :
        LET s == inv[k].slots[i]
            t == inv[k].slots[j]
        IN  /\ s.calls <= 1
            /\ s.requests <= 1
            /\ Len(s.puts) <= 1
            /\ \A key \in KeysTouched(s) : key.symbol = s.symbol
            /\ s.symbol # t.symbol => KeysTouched(s) \cap KeysTouched(t) = {}

\* two unsettled calls for different symbols, each with an item handed to
\* dynamodb.put
C18_Witness ==
    \E k \in Lanes : \E i, j \in 1..Len(inv[k].slots) :
        /\ inv[k].slots[i].symbol # inv[k].slots[j].symbol
        /\ inv[k].slots[i].pc = "put"
        /\ inv[k].slots[j].pc = "put"

\* C19: while every cache get and every cache put fails, every call goes
\* through the provider client once, nothing is stored, every quote
\* returned carries cached = false (a multi-symbol reply counts cached = 0)
\* and every invocation with a provider quote is answered with status 200.
C19_UnreachableCacheFallsThrough ==
    /\ table = {}
    /\ \A k \in Lanes :
        LET r == inv[k].response
            slots == inv[k].slots
        IN  /\ \A i \in 1..Len(slots) :
                  LET s == slots[i]
                  IN  /\ s.pc \notin {"get", "got"} =>
                            /\ s.ttlAtRead = "failed"
                            /\ s.calls = 1
                            /\ s.requests = (IF apiKey THEN 1 ELSE 0)
                      /\ s.pc = "done" =>
                            IF s.fetched # Null
                            THEN IsQuoteWithFlag(s.out, s.fetched, FALSE)
                            ELSE s.out = Null
            /\ (inv[k].status = "done" /\ Len(slots) > 0) =>
                  /\ (\E i \in 1..Len(slots) : slots[i].fetched # Null)
                         => r.statusCode = 200
                  /\ r.statusCode = 200 =>
                        IF PathGiven(inv[k].event)
                        THEN r.body.cached = FALSE /\ r.body.quote.cached = FALSE
                        ELSE /\ r.body.cached = 0
                             /\ r.body.fresh = Len(r.body.quotes)
                             /\ r.body.fresh = CountSlots(slots, FetchedFromProvider)
                             /\ \A j \in 1..Len(r.body.quotes) :
                                   r.body.quotes[j].cached = FALSE

\* a two-symbol invocation answered, after the clock has advanced, with two
\* provider quotes although both gets and both puts failed
C19_Witness ==
    \E k \in Lanes :
        /\ inv[k].status = "done"
        /\ now > 0
        /\ Len(inv[k].slots) = 2
        /\ \A i \in 1..2 : inv[k].slots[i].ttlAtRead = "failed"
                              /\ inv[k].slots[i].putFailed
        /\ inv[k].response.statusCode = 200
        /\ inv[k].response.body.cached = 0
        /\ inv[k].response.body.fresh = 2

\* C20: under every interleaving of two environments, a call whose lookup
\* came back without a fresh entry has entered the provider client exactly
\* once and sent exactly one upstream request (none without an API key), a
\* call served from the cache or still waiting for its lookup has done
\* neither; so a call whose request failed has sent one request only, and
\* two invocations missing on the same symbol send one request each.
C20_OneProviderCallPerMiss ==
    \A k \in Lanes : \A i \in 1..Len(inv[k].slots) :
        LET s == inv[k].slots[i]
        IN  /\ s.ttlAtRead \in {"unread", "gt"} =>
                  s.calls = 0 /\ s.requests = 0
            /\ s.ttlAtRead \in {"failed", "absent", "eq", "lt"} =>
                  /\ s.calls = 1
                  /\ s.requests = (IF apiKey THEN 1 ELSE 0)
            /\ ProviderFailed(s) => s.out = Null

\* two invocations in different environments have both missed on the same
\* symbol and both wait for their own upstream request
C20_Witness ==
    /\ inv[1].status = "running"
    /\ inv[2].status = "running"
    /\ inv[1].slots[1].symbol = inv[2].slots[1].symbol
    /\ inv[1].slots[1].ttlAtRead = "absent"
    /\ inv[2].slots[1].ttlAtRead = "absent"
    /\ inv[1].slots[1].pc = "fetch"
    /\ inv[2].slots[1].pc = "fetch"
    /\ inv[1].slots[1].requests = 1
    /\ inv[2].slots[1].requests = 1

\* C21: every invocation is answered: a trigger whose symbols list holds a
\* non-string element gets the error payload {success: false, error,
\* timestamp} with status 400 and the TypeError's text; a payload with
\* status 200 is never an error payload and every error payload has
\* status 400.
C21_EveryFailureIsAnErrorPayload ==
    \A k \in Lanes :
        LET r == inv[k].response
            e == inv[k].event
        IN  inv[k].status = "done" =>
              /\ r # NoResponse
              /\ r.statusCode \in {200, 400}
              /\ r.statusCode = 400 <=> "error" \in DOMAIN r.body
              /\ r.statusCode = 400 =>
                    /\ DOMAIN r.body = {"success", "error", "timestamp"}
                    /\ r.body.success = FALSE
              /\ r.statusCode = 200 =>
                    ("success" \in DOMAIN r.body => r.body.success = TRUE)
              /\ (/\ ~PathGiven(e)
                  /\ ~Truthy(e.query)
                  /\ e.list.kind = "array"
                  /\ \E i \in 1..Len(e.list.elems) : e.list.elems[i] = NonString)
                 => /\ r.statusCode = 400
                    /\ r.body.error = TypeErrorMessage
                    /\ inv[k].slots = <<>>

\* the reply to a symbols list with a non-string element
C21_Witness ==
    \E k \in Lanes :
        /\ inv[k].status = "done"
        /\ inv[k].event.list = ArrayOf(<<<<"a">>, NonString>>)
        /\ inv[k].response.statusCode = 400
        /\ inv[k].response.body.error = TypeErrorMessage

\* C22: the table changes only through the put of a call that holds a
\* provider quote, which stores that call's item, or through the TTL sweep
\* of DynamoDB removing an expired item; a call served from the cache or
\* failed at the provider has handed nothing to dynamodb.put.
C22_WriteOnlyAfterProviderSuccess ==
    [][/\ table' # table =>
             \/ \E item \in table : item.ttl <= now /\ table' = table \ {item}
             \/ \E k \in Lanes : \E i \in 1..Len(inv[k].slots) :
                    LET s == inv[k].slots[i]
                    IN  /\ s.pc = "put"
                        /\ s.fetched # Null
                        /\ s.ttlAtRead # "gt"
                        /\ s.puts[1].data = s.fetched
                        /\ table' = PutItem(table, s.puts[1])
       /\ \A k \in Lanes : \A i \in 1..Len(inv[k].slots) :
             LET s == inv[k].slots[i]
             IN  (s.ttlAtRead = "gt" \/ ProviderFailed(s)) =>
                     /\ s.puts = <<>>
                     /\ s.pc = "done"
      ]_vars

\* a call has been served from an entry that is still in the table, with
\* nothing handed to dynamodb.put
C22_Witness ==
    \E id \in SlotIds :
        /\ Slot(id).ttlAtRead = "gt"
        /\ Slot(id).pc = "done"
        /\ Slot(id).puts = <<>>
        /\ Slot(id).result.Item \in table

\* C23: every item in the table, and every item a call hands to
\* dynamodb.put, has ttl = timestamp + CACHE_TTL, with timestamp the clock
\* at the moment saveToCache ran, whatever the symbol and the invocation.
C23_TtlIsTimestampPlusCacheTtl ==
    /\ \A item \in table \cup saved :
          /\ item.ttl = item.timestamp + CACHE_TTL
          /\ item.timestamp \in 0..now
    /\ \A id \in SlotIds : \A j \in 1..Len(Slot(id).puts) :
          /\ Slot(id).puts[j].timestamp = Slot(id).fetchedAt
          /\ Slot(id).puts[j].ttl = Slot(id).fetchedAt + CACHE_TTL

\* the table holds items of two symbols written at different clock values
C23_Witness ==
    \E a, b \in table :
        /\ a.symbol # b.symbol
        /\ a.timestamp # b.timestamp
        /\ b.timestamp > 0

\* the reply carries a non-empty "Global Quote" object
HasResult(r) ==
    r.global.defined /\ \E f \in QuoteFields : r.global[f] # Undefined

\* C24 as claimed: fetchFromAlphaVantage returns a quote exactly when the
\* reply arrives, has no "Error Message" field, no "Note" field and a
\* non-empty "Global Quote".
C24_QuoteIffNoErrorFields ==
    client.called =>
        (client.quote # Null <=>
            /\ client.sent
            /\ client.reply.failure = "none"
            /\ client.reply.errorMessage = Undefined
            /\ client.reply.note = Undefined
            /\ HasResult(client.reply))

\* C24: fetchFromAlphaVantage returns a quote, for the symbol it was called
\* with, exactly when the request was sent, the reply arrived, its
\* "Error Message" and "Note" fields are absent or empty and its "Global
\* Quote" is a non-empty object; in every other case it returns null.
C24_QuoteIffNoTruthyErrorFields ==
    client.called =>
        /\ client.quote # Null <=>
              /\ client.sent
              /\ client.reply.failure = "none"
              /\ client.reply.errorMessage \in {Undefined, Str0}
              /\ client.reply.note \in {Undefined, Str0}
              /\ HasResult(client.reply)
        /\ client.quote # Null => client.quote.symbol = client.symbol

\* a quote returned for a reply whose "Error Message" is the empty string
C24_Witness ==
    /\ client.called
    /\ client.reply.errorMessage = Str0
    /\ client.reply.note = Undefined
    /\ client.quote # Null

\* what parseFloat(x) || 0, parseInt(x) || 0 and
\* parseFloat(x?.replace("%", "")) || 0 give on the raw values, floats in
\* hundredths
ExpectedFloat(x) ==
    CASE x = <<"1", ".", "5", "0">> -> 150
      [] x = <<"-", "0", ".", "2", "5">> -> 0 - 25
      [] x = <<"1", "2", "x">> -> 1200
      [] x = <<"0", ".", "5", "%">> -> 50
      [] x = <<"1", "2">> -> 1200
      [] x = <<"1", ".", "7", "5">> -> 175
      [] x = <<"1">> -> 100
      [] x = <<"2">> -> 200
      [] OTHER -> 0

ExpectedInt(x) ==
    CASE x = <<"1", ".", "5", "0">> -> 1
      [] x = <<"1", "2", "x">> -> 12
      [] x = <<"1", "2">> -> 12
      [] OTHER -> 0

ExpectedPercent(x) == IF x = <<"%", "5">> THEN 500 ELSE ExpectedFloat(x)

Unparsable == {Undefined, Str0, <<"a", "b", "c">>}

\* C25: a reply with a non-empty "Global Quote" and no error always yields
\* a quote, and every quote has all ten fields: each numeric field is the
\* number its raw value starts with, and 0 when the raw value is absent,
\* empty or not a number; latestTradingDay is the raw value, and the empty
\* string when absent.
C25_QuoteFullyFormed ==
    client.called =>
        LET g == client.reply.global
            q == client.quote
        IN  /\ (/\ client.sent
                /\ client.reply.failure = "none"
                /\ ~Truthy(client.reply.errorMessage)
                /\ ~Truthy(client.reply.note)
                /\ HasResult(client.reply)) => q # Null
            /\ q # Null =>
                  /\ DOMAIN q = {"symbol", "price", "change", "changePct", "volume",
                                 "latestTradingDay", "previousClose", "open", "high",
                                 "low"}
                  /\ q.price = ExpectedFloat(g.price05)
                  /\ q.change = ExpectedFloat(g.change09)
                  /\ q.changePct = ExpectedPercent(g.changePercent10)
                  /\ q.volume = ExpectedInt(g.volume06)
                  /\ q.previousClose = ExpectedFloat(g.previousClose08)
                  /\ q.open = ExpectedFloat(g.open02)
                  /\ q.high = ExpectedFloat(g.high03)
                  /\ q.low = ExpectedFloat(g.low04)
                  /\ q.latestTradingDay =
                         (IF g.latestTradingDay07 = Undefined THEN Str0
                          ELSE g.latestTradingDay07)
                  /\ g.price05 \in Unparsable => q.price = 0
                  /\ g.change09 \in Unparsable => q.change = 0
                  /\ g.changePercent10 \in Unparsable => q.changePct = 0
                  /\ g.volume06 \in Unparsable => q.volume = 0
                  /\ g.previousClose08 \in Unparsable => q.previousClose = 0
                  /\ g.open02 \in Unparsable => q.open = 0
                  /\ g.high03 \in Unparsable => q.high = 0
                  /\ g.low04 \in Unparsable => q.low = 0

\* a quote built from a "Global Quote" that holds nothing but a price that
\* is not a number
C25_Witness ==
    /\ client.called
    /\ client.reply.global = [EmptyGlobalQuote EXCEPT !.price05 = <<"a", "b", "c">>]
    /\ client.quote # Null
    /\ client.quote.price = 0
    /\ client.quote.latestTradingDay = Str0

\* C26: on the same trigger both handler files resolve the same symbol
\* sequence, hence start the same calls, and on the same outcomes they
\* compose replies with the same status, quotes, cached flag and counts.
C26_VariantsAgree ==
    \A k \in Lanes :
        LET e == inv[k].event
        IN  inv[k].status # "idle" =>
              /\ \A v \in Variants :
                    ResolveSymbols(e, v).symbols = inv[k].symbols
              /\ (inv[k].status = "done" /\ inv[k].slots # <<>>) =>
                    \A v \in Variants :
                        LET r == Compose(v, e, inv[k].symbols, inv[k].quotes, now)
                            o == inv[k].response
                        IN  /\ r.statusCode = o.statusCode
                            /\ (r.statusCode = 200 /\ PathGiven(e)) =>
                                  r.body = o.body
                            /\ (r.statusCode = 200 /\ ~PathGiven(e)) =>
                                  /\ r.body.quotes = o.body.quotes
                                  /\ r.body.cached = o.body.cached
                                  /\ r.body.fresh = o.body.fresh

\* C29: every symbol a fetchQuoteWithCache call is started with is a
\* non-empty string.
C29_SymbolsNonEmpty ==
    \A id \in SlotIds : Slot(id).symbol # Str0

\* C27: at the comparison that serves a call from the cache, the entry
\* served was written at or before the current clock and strictly less
\* than CACHE_TTL seconds before it, and the quote returned is the entry's
\* data.
C27_StalenessBound ==
    [][\A k \in Lanes : \A i \in 1..Len(inv[k].slots) :
          (/\ inv[k].slots[i].pc = "got"
           /\ inv'[k].slots[i].pc = "done"
           /\ inv'[k].slots[i].out # Null)
          => LET item == inv[k].slots[i].result.Item
             IN  /\ inv'[k].slots[i].out.cached
                 /\ item # NoItem
                 /\ item.timestamp <= now
                 /\ now - item.timestamp < CACHE_TTL
                 /\ IsQuoteWithFlag(inv'[k].slots[i].out, item.data, TRUE)
      ]_vars

\* a call has been served, after the clock advanced, from an entry written
\* at clock 0
C27_Witness ==
    \E id \in SlotIds :
        /\ Slot(id).ttlAtRead = "gt"
        /\ Slot(id).out # Null
        /\ Slot(id).result.Item.timestamp = 0
        /\ inv[id[1]].status = "running"
        /\ now = CACHE_TTL - 1

\* the index of the j-th call of an invocation that settled with a quote
NthQuote(k, j) ==
    LET kept == {i \in 1..Len(inv[k].slots) : inv[k].slots[i].out # Null}
    IN  CHOOSE i \in kept : Cardinality({h \in kept : h < i}) = j - 1

\* C28: the quotes of a multi-symbol reply are the outcomes of the calls
\* that settled with a quote, in request order: the j-th quote is the
\* outcome of the j-th such call and carries that call's requested symbol,
\* whenever the calls received their provider replies.
C28_QuotesInRequestOrder ==
    \A k \in Lanes :
        (/\ inv[k].status = "done"
         /\ ~PathGiven(inv[k].event)
         /\ Len(inv[k].slots) > 0)
        => LET quotes == inv[k].response.body.quotes
               kept == {i \in 1..Len(inv[k].slots) : inv[k].slots[i].out # Null}
           IN  /\ Len(quotes) = Cardinality(kept)
               /\ \A j \in 1..Len(quotes) :
                     /\ quotes[j] = inv[k].slots[NthQuote(k, j)].out
                     /\ quotes[j].symbol = inv[k].symbols[NthQuote(k, j)]

\* a reply with the quotes of A and B in request order although the
\* provider answered for B first
C28_Witness ==
    \E k \in Lanes :
        /\ inv[k].status = "done"
        /\ ~PathGiven(inv[k].event)
        /\ inv[k].symbols = << <<"A">>, <<"B">> >>
        /\ inv[k].slots[1].fetched # Null
        /\ inv[k].slots[2].fetched # Null
        /\ inv[k].slots[2].fetchedAt < inv[k].slots[1].fetchedAt
        /\ Len(inv[k].response.body.quotes) = 2
        /\ inv[k].response.body.quotes[1].symbol = <<"A">>

\* C30: without an API key no upstream request is sent and nothing is
\* handed to dynamodb.put or written to the table; a call whose lookup
\* finds no fresh entry enters the provider client once and settles with
\* null, and a call whose lookup finds a fresh entry is served that entry's
\* quote with cached = true.
C30_NoKeyMeansCacheOnly ==
    ~apiKey =>
        /\ \A item \in table : item.timestamp = 0 /\ item.data = StoredQuote
        /\ \A id \in SlotIds :
              LET s == Slot(id)
              IN  /\ s.requests = 0
                  /\ s.puts = <<>>
                  /\ s.fetched = Null
                  /\ s.pc \in {"get", "got", "done"}
                  /\ s.ttlAtRead \in {"failed", "absent", "eq", "lt"} =>
                        /\ s.pc = "done"
                        /\ s.calls = 1
                        /\ s.out = Null
                  /\ s.ttlAtRead = "gt" =>
                        /\ s.pc = "done"
                        /\ s.calls = 0
                        /\ IsQuoteWithFlag(s.out, s.result.Item.data, TRUE)

\* a two-symbol reply without an API key: one quote served from the cache,
\* the other symbol missing
C30_Witness ==
    \E k \in Lanes :
        /\ ~apiKey
        /\ inv[k].status = "done"
        /\ Len(inv[k].slots) = 2
        /\ inv[k].slots[1].ttlAtRead = "gt"
        /\ inv[k].slots[2].ttlAtRead = "absent"
        /\ inv[k].slots[2].out = Null
        /\ inv[k].response.statusCode = 200
        /\ inv[k].response.body.cached = 1
        /\ inv[k].response.body.fresh = 0

\* the reply of an invocation is a success (200) or an error (400) reply
IsReply(response) == response.statusCode \in {200, 400}

\* C31: provided every cache get, cache put and provider call eventually
\* returns or fails, every invocation eventually terminates, with exactly
\* one response, whose status is 200 or 400: a running invocation has not
\* replied, a finished one holds a reply of status 200 or 400, a reply is
\* only ever set by the step that ends the invocation (until the next
\* invocation begins), and every running invocation eventually ends.
C31_EveryInvocationTerminates ==
    /\ [](\A k \in Lanes :
             /\ inv[k].status = "running" => inv[k].response = NoResponse
             /\ inv[k].status = "done" => IsReply(inv[k].response))
    /\ [][\A k \in Lanes :
             inv'[k].response # inv[k].response =>
                 \/ /\ inv[k].status = "running"
                    /\ inv'[k].status = "done"
                    /\ IsReply(inv'[k].response)
                 \/ /\ inv[k].status \in {"idle", "done"}
                    /\ \E e \in LiveEvents : Invoke(k, e)]_vars
    /\ \A k \in Lanes :
          (inv[k].status = "running") ~> (inv[k].status = "done")

\* an invocation for two symbols has ended with a reply after a provider
\* call that timed out or failed and a cache put
C31_Witness ==
    \E k \in Lanes :
        /\ inv[k].status = "done"
        /\ IsReply(inv[k].response)
        /\ Len(inv[k].slots) = 2
        /\ \E i, j \in 1..2 :
              /\ inv[k].slots[i].requests = 1
              /\ inv[k].slots[i].fetched = Null
              /\ inv[k].slots[j].puts # <<>>

====
